---------------------------- MODULE Spec2Model ----------------------------
(***************************************************************************)
(* A model of the Telegram / OpenAI image bot.                             *)
(*                                                                         *)
(*   TelegramBotService     functions/bot/src/services/telegramBot.ts      *)
(*   TelegramSenderService  functions/bot/src/services/telegramSender.ts   *)
(*   botfunction            functions/bot/src/index.ts                     *)
(*                                                                         *)
(* JavaScript strings are sequences of one-character strings, so that      *)
(* startsWith, substring, trim and + are computed and not assumed.  The    *)
(* fixed literals of the code are single fragments of such a sequence;     *)
(* the emoji of the source are written as ASCII names (":warning:").       *)
(* An optional field (text?, photo?, caption?, message?) is a sequence of  *)
(* length 0 (absent) or 1 (present).                                       *)
(*                                                                         *)
(* An asynchronous function runs to completion between two awaits: each    *)
(* action below is the return of one awaited call followed by all the      *)
(* synchronous code up to the next await, whose call it issues.            *)
(***************************************************************************)
EXTENDS Naturals, Sequences, FiniteSets, TLC

(***************************************************************************)
(* Bounds of the model.                                                    *)
(***************************************************************************)
MaxTicks == 9          \* timer ticks modelled per progress indicator
MaxClock == 1          \* the clock reads 0..MaxClock milliseconds

Procs == {1, 2}        \* concurrent invocations of handleMessage

(***************************************************************************)
(* Strings.                                                                *)
(***************************************************************************)
Image1 == <<"/", "i", "m", "a", "g", "e", "1">>
Dalle3 == <<"/", "d", "a", "l", "l", "e", "3">>
Test   == <<"/", "t", "e", "s", "t">>
Time   == <<"/", "t", "i", "m", "e">>

Absent == <<>>
Some(v) == <<v>>
Present(o) == Len(o) = 1

\* JS truthiness of an optional string: undefined and "" are falsy.
TruthyStr(o) == Present(o) /\ o[1] # <<>>
\* JS truthiness of an optional array: every array, also [], is truthy.
TruthyArr(o) == Present(o)

\* String.prototype.startsWith
startsWith(s, prefix) ==
    /\ Len(s) >= Len(prefix)
    /\ SubSeq(s, 1, Len(prefix)) = prefix

\* String.prototype.substring(n): the characters from index n (0-based) on.
substring(s, n) == SubSeq(s, n + 1, Len(s))

IsSpace(c) == c = " "

\* String.prototype.trim
RECURSIVE trimStart(_)
trimStart(s) ==
    IF s # <<>> /\ IsSpace(Head(s)) THEN trimStart(Tail(s)) ELSE s

RECURSIVE trimEnd(_)
trimEnd(s) ==
    IF s # <<>> /\ IsSpace(s[Len(s)])
    THEN trimEnd(SubSeq(s, 1, Len(s) - 1))
    ELSE s

trim(s) == trimEnd(trimStart(s))

\* sub occurs in s as a contiguous run
Contains(s, sub) ==
    \E i \in 0..(Len(s) - Len(sub)) : SubSeq(s, i + 1, i + Len(sub)) = sub

(***************************************************************************)
(* Inbound events (TelegramMessageBody).                                   *)
(***************************************************************************)
Leads == {<<>>, <<" ">>}
Cores == {Image1, Dalle3, Test, Time, <<"f">>}
Tails == {<<>>, <<" ">>, <<"a">>, <<" ", "a", " ">>}

Texts == {<<>>} \cup {l \o c \o t : l \in Leads, c \in Cores, t \in Tails}

Photos == {<<>>, <<[file_id |-> "f1"]>>, <<[file_id |-> "f1"], [file_id |-> "f2"]>>}
Captions == {<<>>, <<"c">>}
ChatIds == {101}

Opt(S) == {Absent} \cup {Some(v) : v \in S}

Messages ==
    [chat : [id : ChatIds], text : Opt(Texts), photo : Opt(Photos),
     caption : Opt(Captions)]

Bodies == [message : Opt(Messages)]


(***************************************************************************)
(* State.                                                                  *)
(*   inv[p]         the invocation p of handleMessage: its position (pc,   *)
(*                  the call it awaits), its arguments, the closure of the *)
(*                  progress indicator it started, and what it has done;   *)
(*                  tickEditFailed says that the edit of the latest tick   *)
(*                  was rejected (and logged by its .catch); answers is    *)
(*                  what its awaited calls and its readings of the clock   *)
(*                  returned, in order; rejection is what the external     *)
(*                  calls of this invocation reject with, an Error         *)
(*                  instance or a value that is not one                    *)
(*   fs             the temporary directory: path -> file                  *)
(*   clock          the wall clock in milliseconds (Date.now, new Date)    *)
(*   nextMessageId  the message_id the chat platform gives the next        *)
(*                  message it accepts                                     *)
(*   web            the invocation of botfunction (index.ts)               *)
(***************************************************************************)
VARIABLES inv, fs, clock, nextMessageId, web

vars == <<inv, fs, clock, nextMessageId, web>>

botToken == "BOT_TOKEN"

\* JS Error objects: error.message, and String(error) for anything thrown.
Error(msg) == [instanceofError |-> TRUE, message |-> msg]

\* A thrown value that is not an Error instance, with its String(error).
NotAnError(str) == [instanceofError |-> FALSE, string |-> str]

\* The rejection of an external call (network, API, platform).
Rejected(call) == Error(<<call, " failed">>)

loadingIcons ==
    <<":new_moon:", ":waxing_crescent:", ":first_quarter:", ":waxing_gibbous:",
      ":full_moon:", ":waning_gibbous:", ":last_quarter:", ":waning_crescent:">>

NoInvocation ==
    [id |-> 0, pc |-> "off", handler |-> "none",
     body |-> [message |-> Absent],
     log |-> <<>>, timer |-> "none", currentIconIndex |-> 0,
     messageId |-> 0, progressText |-> <<>>, ticks |-> 0, stops |-> 0,
     lastEdit |-> Absent, tickEditFailed |-> FALSE,
     pendingFinal |-> 0, finalEditErrors |-> 0,
     size |-> Absent, response |-> Absent, tempOut |-> Absent,
     created |-> {}, rejected |-> <<>>, caught |-> <<>>, thrown |-> Absent,
     answers |-> <<>>, rejection |-> "Error"]

Invocation(p, body) ==
    [NoInvocation EXCEPT !.id = p, !.pc = "start", !.body = body]

(***************************************************************************)
(* TelegramSenderService.  Every operator takes the invocation record r    *)
(* and gives it back with the call issued (appended to r.log); the call's  *)
(* answer arrives in the action that resumes the caller.                   *)
(***************************************************************************)
Issue(r, call) == [r EXCEPT !.log = Append(@, call)]

\* The awaited call returned to r: it resolved with value, or it rejected.
Heard(r, call, ok, value) ==
    [r EXCEPT !.answers = Append(@, [call |-> call, ok |-> ok,
                                     value |-> IF ok THEN Some(value)
                                               ELSE Absent])]

\* sender.sendMessage -> bot.sendMessage({chat_id, text})
sendMessage(r, chatId, text) ==
    Issue(r, [op |-> "sendMessage", chat_id |-> chatId, text |-> text])

\* sender.sendPhoto -> bot.sendPhoto({chat_id, photo, caption})
sendPhoto(r, chatId, photo, caption) ==
    Issue(r, [op |-> "sendPhoto", chat_id |-> chatId, photo |-> photo,
              caption |-> caption])

\* A faulty variant of ErrorText: the string form is sent for every error.
ErrorTextStringForm(operation, error) ==
    <<":x: Sorry, I couldn't ", operation, ". Error: ">> \o
    (IF error.instanceofError THEN <<"Error: ">> \o error.message
     ELSE error.string)

\* `Sorry, I couldn't ${operation}. Error: ${error instanceof Error ?
\* error.message : String(error)}` after the cross mark
ErrorText(operation, error) ==
    <<":x: Sorry, I couldn't ", operation, ". Error: ">> \o
    (IF error.instanceofError THEN error.message ELSE error.string)

\* sender.sendErrorMessage: console.error, then sendMessage
sendErrorMessage(r, chatId, operation, error) ==
    sendMessage([r EXCEPT !.caught = Append(@, error)], chatId,
                ErrorText(operation, error))

ProgressText(text, icon) == text \o <<" ", icon>>

\* sendProgressMessage up to its await: the initial message, first icon
sendProgressMessage(r, chatId, text) ==
    sendMessage([r EXCEPT !.progressText = text, !.currentIconIndex = 0],
                chatId, ProgressText(text, loadingIcons[1]))

\* sendProgressMessage after its await: messageId recorded, setInterval
startInterval(r, message_id) ==
    [r EXCEPT !.messageId = message_id, !.timer = "live"]

ChatId(r) == r.body.message[1].chat.id

\* A faulty variant of stopLoading: the final edit is issued and the interval
\* is not cleared.
stopLoadingNoClear(r) ==
    LET edit == [op |-> "editMessageText", chat_id |-> ChatId(r),
                 message_id |-> r.messageId,
                 text |-> ProgressText(r.progressText, ":white_check_mark:")]
    IN  Issue([r EXCEPT !.stops = @ + 1, !.pendingFinal = @ + 1,
                        !.lastEdit = Some(edit)],
              edit)

\* the function sendProgressMessage returns: clearInterval, final edit
stopLoading(r) ==
    LET edit == [op |-> "editMessageText", chat_id |-> ChatId(r),
                 message_id |-> r.messageId,
                 text |-> ProgressText(r.progressText, ":white_check_mark:")]
    IN  Issue([r EXCEPT !.timer = "cleared", !.stops = @ + 1,
                        !.pendingFinal = @ + 1, !.lastEdit = Some(edit)],
              edit)

\* The promise of a final edit settles; .catch logs a rejection.
finalEditSettles(r, ok) ==
    [r EXCEPT !.pendingFinal = @ - 1,
              !.finalEditErrors = IF ok THEN @ ELSE @ + 1]

\* A faulty variant of intervalCallback: the index stops at the last icon
\* and does not wrap.
intervalCallbackNoWrap(r, ok) ==
    LET i == IF r.currentIconIndex + 1 < Len(loadingIcons)
             THEN r.currentIconIndex + 1
             ELSE r.currentIconIndex
        edit == [op |-> "editMessageText", chat_id |-> ChatId(r),
                 message_id |-> r.messageId,
                 text |-> ProgressText(r.progressText, loadingIcons[i + 1])]
    IN  [r EXCEPT !.currentIconIndex = i, !.ticks = @ + 1,
                  !.lastEdit = Some(edit), !.tickEditFailed = ~ok]

\* A faulty variant of intervalCallback: a rejected edit ends the cycle.
intervalCallbackStopsOnError(r, ok) ==
    LET i == (r.currentIconIndex + 1) % Len(loadingIcons)
        edit == [op |-> "editMessageText", chat_id |-> ChatId(r),
                 message_id |-> r.messageId,
                 text |-> ProgressText(r.progressText, loadingIcons[i + 1])]
    IN  [r EXCEPT !.currentIconIndex = i, !.ticks = @ + 1,
                  !.lastEdit = Some(edit), !.tickEditFailed = ~ok,
                  !.timer = IF ok THEN @ ELSE "cleared"]

\* the setInterval callback: next icon, edit of the message; the edit's
\* promise resolves (ok) or rejects, and .catch logs the rejection
intervalCallback(r, ok) ==
    LET i == (r.currentIconIndex + 1) % Len(loadingIcons)
        edit == [op |-> "editMessageText", chat_id |-> ChatId(r),
                 message_id |-> r.messageId,
                 text |-> ProgressText(r.progressText, loadingIcons[i + 1])]
    IN  [r EXCEPT !.currentIconIndex = i, !.ticks = @ + 1,
                  !.lastEdit = Some(edit), !.tickEditFailed = ~ok]


(***************************************************************************)
(* The temporary directory (os.tmpdir()) and the fs calls of the handlers. *)
(* A file is [size, by]: its size in bytes and the invocation that wrote   *)
(* it.  A synchronous fs call on a missing file throws ENOENT.             *)
(***************************************************************************)
exists(f, path) == path \in DOMAIN f

writeFile(f, path, file) ==
    [q \in DOMAIN f \cup {path} |-> IF q = path THEN file ELSE f[q]]

unlink(f, path) == [q \in DOMAIN f \ {path} |-> f[q]]

rename(f, from, to) == unlink(writeFile(f, to, f[from]), from)

ENOENT(path) == Error(<<"ENOENT: no such file or directory, ">> \o path)

\* path.join(os.tmpdir(), `${fileId}.jpg`)
TempJpgPath(fileId) == <<"/tmp/", fileId, ".jpg">>
\* tempJpgPath + ".resized"
ResizedPath(fileId) == TempJpgPath(fileId) \o <<".resized">>
\* path.join(os.tmpdir(), `${fileId}_output.png`)
TempOutputPath(fileId) == <<"/tmp/", fileId, "_output.png">>
\* path.join(os.tmpdir(), `${Date.now()}.png`)
TempImagePath(ms) == <<"/tmp/", ToString(ms), ".png">>

\* sizes the resized image can have, around the 4 MiB limit
Sizes == {1, 4 * 1024 * 1024 - 1, 4 * 1024 * 1024, 4 * 1024 * 1024 + 1}

\* A faulty variant of TooLarge: the limit itself is accepted (> for >=).
TooLargeAboveLimit(size) == size > 4 * (1024 * 1024)

\* stats.size / (1024 * 1024) >= 4.  The quotient is compared with an
\* integer, so the integer quotient decides the same.
TooLarge(size) == size \div (1024 * 1024) >= 4

(***************************************************************************)
(* Answers of the generation API: response.data?.[0] with optional         *)
(* b64_json and url.                                                       *)
(***************************************************************************)
ImageItems == [b64_json : Opt({"QUJD"}), url : Opt({"https://img/1"})]

ImageResponses == [data : Opt({<<>>} \cup {<<i>> : i \in ImageItems})]

\* response.data?.[0]: undefined (Absent) without data or first element
FirstImage(response) ==
    IF Present(response.data) /\ Len(response.data[1]) > 0
    THEN Some(response.data[1][1])
    ELSE Absent

\* A faulty variant of HasUrl: a remote result is never taken.
HasUrlNever(imageData) == FALSE

\* imageData?.b64_json and imageData?.url as conditions
HasB64(imageData) == Present(imageData) /\ Present(imageData[1].b64_json)
HasUrl(imageData) == Present(imageData) /\ Present(imageData[1].url)

(***************************************************************************)
(* TelegramBotService.  A step of a handler is an operator from the        *)
(* invocation record r and the directory f to [inv, fs].                   *)
(***************************************************************************)
World(r, f) == [inv |-> r, fs |-> f]

At(r, pc) == [r EXCEPT !.pc = pc]

Message(r) == r.body.message[1]

\* A faulty variant of Prompt: the remainder is not trimmed.
PromptUntrimmed(text, command) == substring(text, Len(command))

\* const prompt = text.substring("/image1".length).trim()
Prompt(text, command) == trim(substring(text, Len(command)))

\* A faulty variant of catchVariation: the error is reported and the
\* indicator is left running.
catchVariationNoStop(r, error) ==
    At(sendErrorMessage(r, ChatId(r), "create a variation of your image",
                        error),
       "sendErrorMessage")

\* handlePhotoWithCaption: catch (variationError)
catchVariation(r, error) ==
    At(sendErrorMessage(stopLoading(r), ChatId(r),
                        "create a variation of your image", error),
       "sendErrorMessage")

\* A faulty variant of catchGenerate: the error is reported without stopping the
\* indicator.
catchGenerateNoStop(r, error) ==
    At(sendErrorMessage(r, ChatId(r), "generate the image", error),
       "sendErrorMessage")

\* handleImage1Command, handleDalle3Command: catch (generateError)
catchGenerate(r, error) ==
    At(sendErrorMessage(stopLoading(r), ChatId(r), "generate the image",
                        error),
       "sendErrorMessage")

\* The handler's own catch block.
Catch(r, error) ==
    IF r.handler = "handlePhotoWithCaption"
    THEN catchVariation(r, error)
    ELSE catchGenerate(r, error)

\* What the external call rejects with in invocation r.
RejectedWith(r, call) ==
    IF r.rejection = "Error" THEN Rejected(call)
    ELSE NotAnError(<<call, " failed">>)

\* An awaited call rejects inside the try block.
Fail(r, call) ==
    Catch([r EXCEPT !.rejected = Append(@, call)], RejectedWith(r, call))

\* A faulty variant of Branch: the text commands are tried before photo and caption.
BranchTextFirst(message) ==
    LET text == message.text
    IN  IF TruthyStr(text) /\ startsWith(text[1], Image1) THEN "Image1"
        ELSE IF TruthyStr(text) /\ startsWith(text[1], Dalle3) THEN "Dalle3"
        ELSE IF TruthyArr(message.photo) /\ TruthyStr(message.caption)
          THEN "PhotoEdit"
        ELSE IF TruthyStr(text) /\ text[1] = Test THEN "Test"
        ELSE IF TruthyStr(text) /\ text[1] = Time THEN "Time"
        ELSE "Unrecognized"

\* A faulty variant of Branch: the text is trimmed before it is matched.
BranchTrimmed(message) ==
    LET text == IF Present(message.text) THEN Some(trim(message.text[1]))
                ELSE Absent
    IN  IF TruthyArr(message.photo) /\ TruthyStr(message.caption)
          THEN "PhotoEdit"
        ELSE IF TruthyStr(text) /\ startsWith(text[1], Image1) THEN "Image1"
        ELSE IF TruthyStr(text) /\ startsWith(text[1], Dalle3) THEN "Dalle3"
        ELSE IF TruthyStr(text) /\ text[1] = Test THEN "Test"
        ELSE IF TruthyStr(text) /\ text[1] = Time THEN "Time"
        ELSE "Unrecognized"

\* The if / else-if chain of handleMessage, as the branch it takes.
Branch(message) ==
    LET text == message.text
    IN  IF TruthyArr(message.photo) /\ TruthyStr(message.caption)
          THEN "PhotoEdit"
        ELSE IF TruthyStr(text) /\ startsWith(text[1], Image1) THEN "Image1"
        ELSE IF TruthyStr(text) /\ startsWith(text[1], Dalle3) THEN "Dalle3"
        ELSE IF TruthyStr(text) /\ text[1] = Test THEN "Test"
        ELSE IF TruthyStr(text) /\ text[1] = Time THEN "Time"
        ELSE "Unrecognized"

UsageWarning(command) ==
    <<":warning: Please provide a prompt after ">> \o command

NotRecognized(text) ==
    <<":warning: Sorry, \"">> \o
    (IF TruthyStr(text) THEN text[1] ELSE <<"your message">>) \o
    <<"\" is not a recognized command.">>

\* handlePhotoWithCaption up to its first await
handlePhotoWithCaption(r) ==
    At(sendProgressMessage([r EXCEPT !.handler = "handlePhotoWithCaption"],
           ChatId(r),
           <<":camera: Received your photo. Creating a variation...">>),
       "sendProgressMessage")

\* handleImage1Command up to its first await
handleImage1Command(r) ==
    LET prompt == Prompt(Message(r).text[1], Image1)
        h == [r EXCEPT !.handler = "handleImage1Command"]
    IN  IF prompt = <<>>
        THEN At(sendMessage(h, ChatId(r), UsageWarning(Image1)),
                "sendMessage")
        ELSE At(sendProgressMessage(h, ChatId(r),
                    <<":art: Generating image using image-1 with prompt: \"">>
                    \o prompt \o <<"\"">>),
                "sendProgressMessage")

\* handleDalle3Command up to its first await
handleDalle3Command(r) ==
    LET prompt == Prompt(Message(r).text[1], Dalle3)
        h == [r EXCEPT !.handler = "handleDalle3Command"]
    IN  IF prompt = <<>>
        THEN At(sendMessage(h, ChatId(r), UsageWarning(Dalle3)),
                "sendMessage")
        ELSE At(sendProgressMessage(h, ChatId(r),
                    <<":frame: Generating image using dalle-3 with prompt: \"">>
                    \o prompt \o <<"\"">>),
                "sendProgressMessage")

\* now.toLocaleString()
toLocaleString(ms) == <<"locale time of ", ToString(ms)>>

\* handleMessage after its guard, up to its first await; ms is what
\* new Date() reads
route(r, ms) ==
    LET branch == Branch(Message(r))
        h == [r EXCEPT !.handler = "handleMessage"]
    IN  CASE branch = "PhotoEdit" -> handlePhotoWithCaption(r)
          [] branch = "Image1" -> handleImage1Command(r)
          [] branch = "Dalle3" -> handleDalle3Command(r)
          [] branch = "Test" ->
               At(sendMessage(h, ChatId(r), <<"Test OK">>), "sendMessage")
          [] branch = "Time" ->
               At(sendMessage(Heard(h, "new Date", TRUE, ms), ChatId(r),
                              <<"Current time: ">> \o toLocaleString(ms)),
                  "sendMessage")
          [] OTHER ->
               At(sendMessage(h, ChatId(r), NotRecognized(Message(r).text)),
                  "sendMessage")

\* A faulty variant of handleMessage: an event without a message is answered as not
\* recognized.
handleMessageAnswersAll(r, ms) ==
    IF ~Present(r.body.message)
    THEN At(Issue([r EXCEPT !.handler = "handleMessage"],
                  [op |-> "sendMessage", chat_id |-> 0,
                   text |-> NotRecognized(Absent)]),
            "sendMessage")
    ELSE route(r, ms)

\* handleMessage: if (!body.message) return
handleMessage(r, ms) ==
    IF ~Present(r.body.message) THEN At(r, "done") ELSE route(r, ms)


\* photo[photo.length - 1].file_id
FileId(r) == LET photo == Message(r).photo[1] IN photo[Len(photo)].file_id

OriginalSize == 5 * 1024 * 1024

\* openai.images.generate({model, prompt, n: 1, size: "1024x1024"})
generate(r, model, prompt) ==
    At(Issue(r, [op |-> "images.generate", model |-> model,
                 prompt |-> prompt, n |-> 1, size |-> "1024x1024"]),
       "images.generate")

\* The handler resumes after sendProgressMessage returned stopLoading:
\* the start of its try block.
afterSendProgressMessage(r) ==
    CASE r.handler = "handlePhotoWithCaption" ->
           IF Len(Message(r).photo[1]) = 0
           THEN Catch(r, Error(<<"Cannot read properties of undefined">>))
           ELSE At(Issue(r, [op |-> "getFile", file_id |-> FileId(r)]),
                   "getFile")
      [] r.handler = "handleImage1Command" ->
           generate(r, "gpt-image-1", Prompt(Message(r).text[1], Image1))
      [] OTHER ->
           generate(r, "dall-e-3", Prompt(Message(r).text[1], Dalle3))

\* A faulty variant of afterGetFile: a rejected look-up is tried once more.
afterGetFileRetry(r, ok, fileInfo) ==
    IF ~ok
    THEN IF Len(SelectSeq(r.log, LAMBDA c : c.op = "getFile")) < 2
         THEN At(Issue(r, [op |-> "getFile",
                           file_id |-> LET photo == r.body.message[1].photo[1]
                                       IN  photo[Len(photo)].file_id]),
                 "getFile")
         ELSE Fail(r, "getFile")
    ELSE IF ~Present(fileInfo.file_path)
    THEN Catch(r, Error(<<"Could not get file path">>))
    ELSE At(Issue(r, [op |-> "axios", method |-> "GET",
                      url |-> <<"https://api.telegram.org/file/bot",
                                botToken, "/", fileInfo.file_path[1]>>,
                      responseType |-> "stream"]),
            "axios")

\* handlePhotoWithCaption after bot.getFile; fileInfo is [file_path]
afterGetFile(r, ok, fileInfo) ==
    IF ~ok THEN Fail(r, "getFile")
    ELSE IF ~Present(fileInfo.file_path)
    THEN Catch(r, Error(<<"Could not get file path">>))
    ELSE At(Issue(r, [op |-> "axios", method |-> "GET",
                      url |-> <<"https://api.telegram.org/file/bot",
                                botToken, "/", fileInfo.file_path[1]>>,
                      responseType |-> "stream"]),
            "axios")

\* A faulty variant of afterAxios: a rejected download is not noticed.
afterAxiosIgnoresFailure(r, ok) ==
    At(Issue(r, [op |-> "createWriteStream",
                 path |-> TempJpgPath(FileId(r))]),
       "writer")

\* handlePhotoWithCaption after axios: createWriteStream, pipe
afterAxios(r, ok) ==
    IF ~ok THEN Fail(r, "axios")
    ELSE At(Issue(r, [op |-> "createWriteStream",
                      path |-> TempJpgPath(FileId(r))]),
            "writer")

Creates(r, path) == [r EXCEPT !.created = @ \cup {path}]

\* handlePhotoWithCaption after the writer's finish or error event; on an
\* error the file may or may not have been created
afterWriter(r, f, finish, partial) ==
    LET jpg == TempJpgPath(FileId(r))
        file == [size |-> OriginalSize, by |-> r.id]
    IN  IF finish
        THEN World(At(Issue(Creates(r, jpg),
                            [op |-> "sharp", input |-> jpg,
                             resize |-> [width |-> 1024, height |-> 1024,
                                         fit |-> "inside"],
                             jpeg |-> [quality |-> 80],
                             toFile |-> ResizedPath(FileId(r))]),
                      "sharp"),
                   writeFile(f, jpg, file))
        ELSE IF partial
        THEN World(Fail(Creates(r, jpg), "writer"),
                   writeFile(f, jpg, file))
        ELSE World(Fail(r, "writer"), f)

ImageTooLarge == Error(<<"Image is ", "too large", " (must be less than 4MB)">>)

\* handlePhotoWithCaption from fs.renameSync to openai.images.edit
resized(r, f) ==
    LET jpg == TempJpgPath(FileId(r))
        tmp == ResizedPath(FileId(r))
        g == rename(f, tmp, jpg)
        s == [r EXCEPT !.size = Some(g[jpg].size)]
    IN  IF ~exists(f, tmp) THEN World(Catch(r, ENOENT(tmp)), f)
        ELSE IF TooLarge(g[jpg].size)
        THEN World(Catch(s, ImageTooLarge), g)
        ELSE World(At(Issue(s, [op |-> "images.edit",
                                image |-> [name |-> "image.jpg",
                                           type |-> "image/jpeg",
                                           size |-> g[jpg].size],
                                model |-> "gpt-image-1",
                                prompt |-> Message(r).caption[1]]),
                      "images.edit"),
                   g)

\* handlePhotoWithCaption after sharp(...).toFile; sharp needs its input
\* file, and a failed run may or may not leave its output behind
afterSharp(r, f, ok, size, partial) ==
    LET jpg == TempJpgPath(FileId(r))
        tmp == ResizedPath(FileId(r))
        file == [size |-> size, by |-> r.id]
    IN  IF ok /\ exists(f, jpg)
        THEN resized(Creates(r, tmp), writeFile(f, tmp, file))
        ELSE IF partial
        THEN World(Fail(Creates(r, tmp), "sharp"),
                   writeFile(f, tmp, file))
        ELSE World(Fail(r, "sharp"), f)

\* A faulty variant of sendDecoded: an image that is already on disk is
\* taken as sent and is not sent again.
sendDecodedOnce(r, f, path, caption) ==
    IF exists(f, path)
    THEN World(At(r, "done"), f)
    ELSE World(At(sendPhoto(Creates([r EXCEPT !.tempOut = Some(path)], path),
                            ChatId(r), [stream |-> path], caption),
                  "sendPhoto"),
               writeFile(f, path, [size |-> 3, by |-> r.id]))

\* fs.writeFileSync(path, imageBuffer); sendPhoto(createReadStream(path))
sendDecoded(r, f, path, caption) ==
    World(At(sendPhoto(Creates([r EXCEPT !.tempOut = Some(path)], path),
                       ChatId(r), [stream |-> path], caption),
             "sendPhoto"),
          writeFile(f, path, [size |-> 3, by |-> r.id]))

sendUrl(r, f, url, caption) ==
    World(At(sendPhoto(r, ChatId(r), [url |-> url], caption), "sendPhoto"), f)

VariationCaption(caption) == <<"prompt: ", "\"">> \o caption \o <<"\"">>

\* handlePhotoWithCaption after openai.images.edit
afterImagesEdit(r, f, ok, result) ==
    IF ~ok THEN World(Fail(r, "images.edit"), f)
    ELSE
    LET s == stopLoading([r EXCEPT !.response = Some(result)])
        imageData == FirstImage(result)
        caption == VariationCaption(Message(r).caption[1])
    IN  IF HasB64(imageData)
        THEN sendDecoded(s, f, TempOutputPath(FileId(r)), caption)
        ELSE IF HasUrl(imageData)
        THEN sendUrl(s, f, imageData[1].url[1], caption)
        ELSE World(Catch(s, Error(<<"No image data received from OpenAI">>)), f)

Image1Caption(prompt) ==
    <<"Here's your image-1 image for: \"">> \o prompt \o <<"\"">>

Dalle3Caption(prompt) ==
    <<"Here's your dalle3 image for: \"">> \o prompt \o <<"\"">>

\* A faulty variant of afterImage1Generate: the indicator is not stopped on the
\* success path.
afterImage1GenerateNoStop(r, f, ok, response, ms) ==
    IF ~ok THEN World(Fail(r, "images.generate"), f)
    ELSE
    LET s == [r EXCEPT !.response = Some(response)]
        imageData == FirstImage(response)
        caption == Image1Caption(Prompt(Message(r).text[1], Image1))
    IN  IF HasB64(imageData)
        THEN sendDecoded(Heard(s, "Date.now", TRUE, ms), f,
                         TempImagePath(ms), caption)
        ELSE IF HasUrl(imageData)
        THEN sendUrl(s, f, imageData[1].url[1], caption)
        ELSE World(Catch(s, Error(<<"No image data received from OpenAI">>)), f)

\* handleImage1Command after openai.images.generate; ms is Date.now()
afterImage1Generate(r, f, ok, response, ms) ==
    IF ~ok THEN World(Fail(r, "images.generate"), f)
    ELSE
    LET s == stopLoading([r EXCEPT !.response = Some(response)])
        imageData == FirstImage(response)
        caption == Image1Caption(Prompt(Message(r).text[1], Image1))
    IN  IF HasB64(imageData)
        THEN sendDecoded(Heard(s, "Date.now", TRUE, ms), f,
                         TempImagePath(ms), caption)
        ELSE IF HasUrl(imageData)
        THEN sendUrl(s, f, imageData[1].url[1], caption)
        ELSE World(Catch(s, Error(<<"No image data received from OpenAI">>)), f)

\* A faulty variant of afterDalle3Generate: the indicator is stopped after the
\* photo-send has been issued.
afterDalle3GenerateStopsLate(r, f, ok, response) ==
    IF ~ok THEN World(Fail(r, "images.generate"), f)
    ELSE
    LET s == [r EXCEPT !.response = Some(response)]
        imageData == FirstImage(response)
    IN  IF HasUrl(imageData)
        THEN World(stopLoading(
                       sendUrl(s, f, imageData[1].url[1],
                               Dalle3Caption(Prompt(Message(r).text[1],
                                                    Dalle3))).inv),
                   f)
        ELSE World(Catch(stopLoading(s),
                         Error(<<"No image URL received from OpenAI">>)), f)

\* handleDalle3Command after openai.images.generate
afterDalle3Generate(r, f, ok, response) ==
    IF ~ok THEN World(Fail(r, "images.generate"), f)
    ELSE
    LET s == stopLoading([r EXCEPT !.response = Some(response)])
        imageData == FirstImage(response)
    IN  IF HasUrl(imageData)
        THEN sendUrl(s, f, imageData[1].url[1],
                     Dalle3Caption(Prompt(Message(r).text[1], Dalle3)))
        ELSE World(Catch(s, Error(<<"No image URL received from OpenAI">>)), f)

\* fs.unlinkSync of each path in turn, then the end of the try block:
\* the first missing file throws into the catch block
RECURSIVE unlinkSync(_, _, _)
unlinkSync(r, f, paths) ==
    IF paths = <<>> THEN World(At(r, "done"), f)
    ELSE IF exists(f, Head(paths))
    THEN unlinkSync(r, unlink(f, Head(paths)), Tail(paths))
    ELSE World(Catch(r, ENOENT(Head(paths))), f)

\* The handler after sender.sendPhoto: the clean-up of its temp files.
\* tempOut is the decoded image when the result was inline.
afterSendPhoto(r, f, ok) ==
    IF ~ok THEN World(Fail(r, "sendPhoto"), f)
    ELSE CASE r.handler = "handlePhotoWithCaption" ->
                unlinkSync(r, f, r.tempOut \o <<TempJpgPath(FileId(r))>>)
           [] r.handler = "handleImage1Command" ->
                unlinkSync(r, f, r.tempOut)
           [] OTHER -> World(At(r, "done"), f)

\* handleMessage after the sender.sendMessage or sender.sendErrorMessage
\* that ends its handler: it returns, or the rejection leaves handleMessage
afterSendMessage(r, ok) ==
    IF ok THEN At(r, "done")
    ELSE [At(r, "threw") EXCEPT !.rejected = Append(@, "sendMessage"),
                                !.thrown =
                                    Some(RejectedWith(r, "sendMessage"))]


(***************************************************************************)
(* Actions of an invocation p of handleMessage.  The answers of the        *)
(* external calls (fulfilled or rejected, and with what) are chosen by     *)
(* the environment.                                                        *)
(***************************************************************************)
Resume(p, w) ==
    /\ inv' = [inv EXCEPT ![p] = w.inv]
    /\ fs' = w.fs

\* The platform accepted a message: it takes the next message_id.
Accepted(ok) == nextMessageId' = IF ok THEN nextMessageId + 1 ELSE nextMessageId

HandleMessage(p) ==
    /\ inv[p].pc = "start"
    /\ \E ms \in clock..MaxClock :
          /\ clock' = ms
          /\ Resume(p, World(handleMessage(inv[p], ms), fs))
    /\ UNCHANGED <<nextMessageId, web>>

SendMessageReturns(p) ==
    /\ inv[p].pc \in {"sendMessage", "sendErrorMessage"}
    /\ \E ok \in BOOLEAN :
          /\ Resume(p, World(afterSendMessage(
                                  Heard(inv[p], "sendMessage", ok, "sent"),
                                  ok), fs))
          /\ Accepted(ok)
    /\ UNCHANGED <<clock, web>>

SendProgressMessageReturns(p) ==
    /\ inv[p].pc = "sendProgressMessage"
    /\ \E ok \in BOOLEAN :
          /\ LET r == Heard(inv[p], "sendProgressMessage", ok,
                            nextMessageId)
             IN  Resume(p, World(IF ok
                                 THEN afterSendProgressMessage(
                                          startInterval(r, nextMessageId))
                                 ELSE afterSendMessage(r, FALSE), fs))
          /\ Accepted(ok)
    /\ UNCHANGED <<clock, web>>

GetFileReturns(p) ==
    /\ inv[p].pc = "getFile"
    /\ \E ok \in BOOLEAN, fileInfo \in [file_path : Opt({"photos/file_0.jpg"})] :
          Resume(p, World(afterGetFile(
                              Heard(inv[p], "getFile", ok, fileInfo.file_path),
                              ok, fileInfo), fs))
    /\ UNCHANGED <<clock, nextMessageId, web>>

AxiosReturns(p) ==
    /\ inv[p].pc = "axios"
    /\ \E ok \in BOOLEAN :
          Resume(p, World(afterAxios(Heard(inv[p], "axios", ok, "stream"),
                                     ok), fs))
    /\ UNCHANGED <<clock, nextMessageId, web>>

WriterSettles(p) ==
    /\ inv[p].pc = "writer"
    /\ \E finish \in BOOLEAN, partial \in BOOLEAN :
          Resume(p, afterWriter(Heard(inv[p], "writer", finish, "finish"),
                                fs, finish, partial))
    /\ UNCHANGED <<clock, nextMessageId, web>>

SharpReturns(p) ==
    /\ inv[p].pc = "sharp"
    /\ \E ok \in BOOLEAN, size \in Sizes, partial \in BOOLEAN :
          Resume(p, afterSharp(Heard(inv[p], "sharp", ok, size),
                               fs, ok, size, partial))
    /\ UNCHANGED <<clock, nextMessageId, web>>

ImagesEditReturns(p) ==
    /\ inv[p].pc = "images.edit"
    /\ \E ok \in BOOLEAN, result \in ImageResponses :
          Resume(p, afterImagesEdit(Heard(inv[p], "images.edit", ok, result),
                                    fs, ok, result))
    /\ UNCHANGED <<clock, nextMessageId, web>>

ImagesGenerateReturns(p) ==
    /\ inv[p].pc = "images.generate"
    /\ \E ok \in BOOLEAN, response \in ImageResponses, ms \in clock..MaxClock :
          /\ clock' = ms
          /\ LET r == Heard(inv[p], "images.generate", ok, response)
             IN  Resume(p, IF r.handler = "handleImage1Command"
                           THEN afterImage1Generate(r, fs, ok, response, ms)
                           ELSE afterDalle3Generate(r, fs, ok, response))
    /\ UNCHANGED <<nextMessageId, web>>

SendPhotoReturns(p) ==
    /\ inv[p].pc = "sendPhoto"
    /\ \E ok \in BOOLEAN :
          /\ Resume(p, afterSendPhoto(Heard(inv[p], "sendPhoto", ok, "sent"),
                                       fs, ok))
          /\ Accepted(ok)
    /\ UNCHANGED <<clock, web>>

\* The interval of a progress indicator fires.
IntervalFires(p) ==
    /\ inv[p].timer = "live"
    /\ inv[p].ticks < MaxTicks
    /\ \E ok \in BOOLEAN :
          inv' = [inv EXCEPT ![p] = intervalCallback(inv[p], ok)]
    /\ UNCHANGED <<fs, clock, nextMessageId, web>>

\* The promise of a final edit settles.
FinalEditSettles(p) ==
    /\ inv[p].pendingFinal > 0
    /\ \E ok \in BOOLEAN : inv' = [inv EXCEPT ![p] = finalEditSettles(inv[p], ok)]
    /\ UNCHANGED <<fs, clock, nextMessageId, web>>

(***************************************************************************)
(* botfunction (index.ts): the webhook with the handlers inline.  The      *)
(* record b is the invocation: its position, the request body, the two     *)
(* environment variables, the calls it issued, what it logged with         *)
(* console.error and what it sent with response.send.                      *)
(***************************************************************************)
NoWeb ==
    [pc |-> "off", body |-> [message |-> Absent], BOT_TOKEN |-> Absent,
     OPENAI_API_KEY |-> Absent, log |-> <<>>, console |-> <<>>,
     sent |-> <<>>]

Request(body, token, key) ==
    [NoWeb EXCEPT !.pc = "start", !.body = body, !.BOT_TOKEN = token,
                  !.OPENAI_API_KEY = key]

WebChatId(b) == b.body.message[1].chat.id

WebFileId(b) ==
    LET photo == b.body.message[1].photo[1] IN photo[Len(photo)].file_id

\* path.join(os.tmpdir(), `${fileId}.png`)
TempPngPath(fileId) == <<"/tmp/", fileId, ".png">>

\* bot.sendMessage({chat_id, text}), awaited at pc
webSendMessage(b, text, pc) ==
    At(Issue(b, [op |-> "sendMessage", chat_id |-> WebChatId(b),
                 text |-> text]), pc)

\* response.send("OK"): the last statement of botfunction
respond(b) == [At(b, "done") EXCEPT !.sent = Append(@, "OK")]

\* return inside the try block: botfunction ends there
return(b) == At(b, "done")

\* catch (error: unknown) of botfunction, then response.send
catchOuter(b, error) ==
    respond([b EXCEPT !.console = @ \o <<"Error sending message", error>>])

\* catch (variationError): console.error, then the error message
webCatchVariation(b, error) ==
    webSendMessage(
        [b EXCEPT !.console = @ \o <<"Error creating image variation:", error>>],
        <<":x: Sorry, I couldn't create a", "variation of your image. Error: ">>
        \o error.message,
        "catch.sendMessage")

\* catch (generateError): console.error, then the error message
webCatchGenerate(b, error) ==
    webSendMessage(
        [b EXCEPT !.console = @ \o <<"Error generating image:", error>>],
        <<":x: Sorry, I couldn't generate the image. Error: ">> \o error.message,
        "catch.sendMessage")

\* the /image1 and /dalle3 branches up to their first await
webGenerateCommand(b, command, notice) ==
    LET prompt == Prompt(b.body.message[1].text[1], command)
    IN  IF prompt = <<>>
        THEN webSendMessage(b, UsageWarning(command), "usage.sendMessage")
        ELSE webSendMessage(b, <<notice>> \o prompt \o <<"\"...">>,
                            "notice.sendMessage")

\* botfunction up to its first await; ms is what new Date() reads
botfunction(b, ms) ==
    IF ~Present(b.BOT_TOKEN)
    THEN catchOuter(b, Error(<<"BOT_TOKEN environment variable is not set">>))
    ELSE IF ~Present(b.OPENAI_API_KEY)
    THEN catchOuter(b, Error(<<"OPENAI_API_KEY environment variable is not set">>))
    ELSE IF ~Present(b.body.message) THEN respond(b)
    ELSE
    LET message == b.body.message[1]
        branch == Branch(message)
    IN  CASE branch = "PhotoEdit" ->
               webSendMessage(b,
                   <<":camera: Received your photo. Creating a variation...">>,
                   "notice.sendMessage")
          [] branch = "Image1" ->
               webGenerateCommand(b, Image1,
                   ":art: Generating image using image-1 with prompt: \"")
          [] branch = "Dalle3" ->
               webGenerateCommand(b, Dalle3,
                   ":frame: Generating image using dalle-3 with prompt: \"")
          [] branch = "Test" ->
               \* bot.sendMessage is not awaited here
               respond(Issue(b, [op |-> "sendMessage",
                                 chat_id |-> WebChatId(b),
                                 text |-> <<"Test OK">>]))
          [] branch = "Time" ->
               webSendMessage(b, <<"Current time: ">> \o toLocaleString(ms),
                              "reply.sendMessage")
          [] OTHER ->
               webSendMessage(b, NotRecognized(message.text),
                              "reply.sendMessage")

\* after an awaited bot.sendMessage outside the inner try blocks
webAfterSendMessage(b, ok) ==
    IF ~ok THEN catchOuter(b, Rejected("sendMessage"))
    ELSE CASE b.pc = "usage.sendMessage" -> return(b)
           [] b.pc = "notice.sendMessage" ->
                LET branch == Branch(b.body.message[1])
                IN  IF branch = "PhotoEdit"
                    THEN IF Len(b.body.message[1].photo[1]) = 0
                         THEN webCatchVariation(b,
                                  Error(<<"Cannot read properties of undefined">>))
                         ELSE At(Issue(b, [op |-> "getFile",
                                           file_id |-> WebFileId(b)]),
                                 "getFile")
                    ELSE At(Issue(b, [op |-> "images.generate",
                                      model |-> IF branch = "Image1"
                                                THEN "gpt-image-1"
                                                ELSE "dall-e-3",
                                      prompt |-> Prompt(b.body.message[1].text[1],
                                                        IF branch = "Image1"
                                                        THEN Image1 ELSE Dalle3),
                                      n |-> 1, size |-> "1024x1024"]),
                            "images.generate")
           [] OTHER -> respond(b)

webAfterGetFile(b, ok, fileInfo) ==
    IF ~ok THEN webCatchVariation(b, Rejected("getFile"))
    ELSE IF ~Present(fileInfo.file_path)
    THEN webCatchVariation(b, Error(<<"Could not get file path">>))
    ELSE At(Issue(b, [op |-> "axios", method |-> "GET",
                      url |-> <<"https://api.telegram.org/file/bot",
                                b.BOT_TOKEN[1], "/", fileInfo.file_path[1]>>,
                      responseType |-> "stream"]),
            "axios")

webAfterAxios(b, ok) ==
    IF ~ok THEN webCatchVariation(b, Rejected("axios"))
    ELSE At(Issue(b, [op |-> "createWriteStream",
                      path |-> TempJpgPath(WebFileId(b))]),
            "writer")

webAfterWriter(b, f, finish, partial) ==
    LET jpg == TempJpgPath(WebFileId(b))
        file == [size |-> OriginalSize, by |-> 0]
    IN  IF finish
        THEN World(At(Issue(b, [op |-> "sharp", input |-> jpg,
                                resize |-> [width |-> 1024, height |-> 1024,
                                            fit |-> "inside"],
                                png |-> [quality |-> 80],
                                toFile |-> TempPngPath(WebFileId(b))]),
                      "sharp"),
                   writeFile(f, jpg, file))
        ELSE World(webCatchVariation(b, Rejected("writer")),
                   IF partial THEN writeFile(f, jpg, file) ELSE f)

\* from sharp(...).toFile(tempPngPath) to openai.images.edit
webAfterSharp(b, f, ok, size, partial) ==
    LET png == TempPngPath(WebFileId(b))
        g == writeFile(f, png, [size |-> size, by |-> 0])
    IN  IF ~(ok /\ exists(f, TempJpgPath(WebFileId(b))))
        THEN World(webCatchVariation(b, Rejected("sharp")),
                   IF partial THEN g ELSE f)
        ELSE IF TooLarge(g[png].size)
        THEN World(webCatchVariation(b,
                       ImageTooLarge), g)
        ELSE World(At(Issue(b, [op |-> "images.edit",
                                image |-> [stream |-> png],
                                model |-> "gpt-image-1",
                                prompt |-> b.body.message[1].caption[1]]),
                      "images.edit"),
                   g)

webSendPhoto(b, url, caption) ==
    At(Issue(b, [op |-> "sendPhoto", chat_id |-> WebChatId(b),
                 photo |-> [url |-> url], caption |-> caption]),
       "sendPhoto")

\* after openai.images.edit / openai.images.generate: only a URL is used
webAfterImages(b, ok, response) ==
    LET branch == Branch(b.body.message[1])
        imageData == FirstImage(response)
    IN  IF branch = "PhotoEdit"
        THEN IF ~ok THEN webCatchVariation(b, Rejected("images.edit"))
             ELSE IF HasUrl(imageData)
             THEN webSendPhoto(b, imageData[1].url[1],
                      <<"Here's a variation of your image with the caption: ", "\"">>
                      \o b.body.message[1].caption[1] \o <<"\"">>)
             ELSE webCatchVariation(b, Error(<<"No image URL received from OpenAI">>))
        ELSE IF ~ok THEN webCatchGenerate(b, Rejected("images.generate"))
             ELSE IF HasUrl(imageData)
             THEN webSendPhoto(b, imageData[1].url[1],
                      IF branch = "Image1"
                      THEN Image1Caption(Prompt(b.body.message[1].text[1], Image1))
                      ELSE Dalle3Caption(Prompt(b.body.message[1].text[1], Dalle3)))
             ELSE webCatchGenerate(b, Error(<<"No image URL received from OpenAI">>))

\* after bot.sendPhoto: the clean-up of the photo branch, then the
\* acknowledgement
webAfterSendPhoto(b, f, ok) ==
    LET jpg == TempJpgPath(WebFileId(b))
        png == TempPngPath(WebFileId(b))
    IN  IF Branch(b.body.message[1]) = "PhotoEdit"
        THEN IF ~ok THEN World(webCatchVariation(b, Rejected("sendPhoto")), f)
             ELSE IF ~exists(f, jpg)
             THEN World(webCatchVariation(b, ENOENT(jpg)), f)
             ELSE IF ~exists(f, png)
             THEN World(webCatchVariation(b, ENOENT(png)), unlink(f, jpg))
             ELSE World(respond(b), unlink(unlink(f, jpg), png))
        ELSE IF ~ok THEN World(webCatchGenerate(b, Rejected("sendPhoto")), f)
             ELSE World(respond(b), f)

\* after the bot.sendMessage of an inner catch block
webAfterCatchMessage(b, ok) ==
    IF ok THEN respond(b) ELSE catchOuter(b, Rejected("sendMessage"))

\* One invocation of handleMessage, for any event, in an empty directory.
Init ==
    /\ \E body \in Bodies :
          inv = [p \in Procs |-> IF p = 1 THEN Invocation(p, body)
                                 ELSE NoInvocation]
    /\ fs = <<>>
    /\ clock = 0
    /\ nextMessageId = 1
    /\ web = NoWeb

Next ==
    \E p \in Procs :
        \/ HandleMessage(p)
        \/ SendMessageReturns(p)
        \/ SendProgressMessageReturns(p)
        \/ GetFileReturns(p)
        \/ AxiosReturns(p)
        \/ WriterSettles(p)
        \/ SharpReturns(p)
        \/ ImagesEditReturns(p)
        \/ ImagesGenerateReturns(p)
        \/ SendPhotoReturns(p)
        \/ IntervalFires(p)
        \/ FinalEditSettles(p)

Spec == Init /\ [][Next]_vars


(***************************************************************************)
(* Actions of botfunction.                                                 *)
(***************************************************************************)
BotFunction ==
    /\ web.pc = "start"
    /\ \E ms \in clock..MaxClock :
          /\ clock' = ms
          /\ web' = botfunction(web, ms)
    /\ UNCHANGED <<inv, fs, nextMessageId>>

WebSendMessageReturns ==
    /\ web.pc \in {"usage.sendMessage", "notice.sendMessage", "reply.sendMessage"}
    /\ \E ok \in BOOLEAN :
          /\ web' = webAfterSendMessage(web, ok)
          /\ Accepted(ok)
    /\ UNCHANGED <<inv, fs, clock>>

WebGetFileReturns ==
    /\ web.pc = "getFile"
    /\ \E ok \in BOOLEAN, fileInfo \in [file_path : Opt({"photos/file_0.jpg"})] :
          web' = webAfterGetFile(web, ok, fileInfo)
    /\ UNCHANGED <<inv, fs, clock, nextMessageId>>

WebAxiosReturns ==
    /\ web.pc = "axios"
    /\ \E ok \in BOOLEAN : web' = webAfterAxios(web, ok)
    /\ UNCHANGED <<inv, fs, clock, nextMessageId>>

WebResume(w) == web' = w.inv /\ fs' = w.fs

WebWriterSettles ==
    /\ web.pc = "writer"
    /\ \E finish \in BOOLEAN, partial \in BOOLEAN :
          WebResume(webAfterWriter(web, fs, finish, partial))
    /\ UNCHANGED <<inv, clock, nextMessageId>>

WebSharpReturns ==
    /\ web.pc = "sharp"
    /\ \E ok \in BOOLEAN, size \in Sizes, partial \in BOOLEAN :
          WebResume(webAfterSharp(web, fs, ok, size, partial))
    /\ UNCHANGED <<inv, clock, nextMessageId>>

WebImagesReturns ==
    /\ web.pc \in {"images.edit", "images.generate"}
    /\ \E ok \in BOOLEAN, response \in ImageResponses :
          web' = webAfterImages(web, ok, response)
    /\ UNCHANGED <<inv, fs, clock, nextMessageId>>

WebSendPhotoReturns ==
    /\ web.pc = "sendPhoto"
    /\ \E ok \in BOOLEAN :
          /\ WebResume(webAfterSendPhoto(web, fs, ok))
          /\ Accepted(ok)
    /\ UNCHANGED <<inv, clock>>

WebCatchMessageReturns ==
    /\ web.pc = "catch.sendMessage"
    /\ \E ok \in BOOLEAN :
          /\ web' = webAfterCatchMessage(web, ok)
          /\ Accepted(ok)
    /\ UNCHANGED <<inv, fs, clock>>

\* One webhook request, for any event and any configuration.
InitWeb ==
    /\ inv = [p \in Procs |-> NoInvocation]
    /\ fs = <<>>
    /\ clock = 0
    /\ nextMessageId = 1
    /\ \E body \in Bodies, token \in Opt({botToken}), key \in Opt({"OPENAI_API_KEY"}) :
          web = Request(body, token, key)

NextWeb ==
    \/ BotFunction
    \/ WebSendMessageReturns
    \/ WebGetFileReturns
    \/ WebAxiosReturns
    \/ WebWriterSettles
    \/ WebSharpReturns
    \/ WebImagesReturns
    \/ WebSendPhotoReturns
    \/ WebCatchMessageReturns

SpecWeb == InitWeb /\ [][NextWeb]_vars


(***************************************************************************)
(* Two invocations of handleMessage in one process (the function instance  *)
(* serves requests concurrently and os.tmpdir() is one directory).  Their  *)
(* steps interleave at the awaits.  The ticks of the indicators and the    *)
(* settling of their final edits are left out here: they touch neither     *)
(* the directory nor the position of a handler.                            *)
(***************************************************************************)
PhotoEvent ==
    [message |-> Some([chat |-> [id |-> 101], text |-> Absent,
                       photo |-> Some(<<[file_id |-> "f1"]>>),
                       caption |-> Some(<<"c">>)])]

Image1Event ==
    [message |-> Some([chat |-> [id |-> 101], text |-> Some(Image1 \o <<"a">>),
                       photo |-> Absent, caption |-> Absent])]

ConcBodies == {PhotoEvent, Image1Event}

InitConc ==
    /\ \E b1 \in ConcBodies, b2 \in ConcBodies :
          inv = [p \in Procs |-> Invocation(p, IF p = 1 THEN b1 ELSE b2)]
    /\ fs = <<>>
    /\ clock = 0
    /\ nextMessageId = 1
    /\ web = NoWeb

\* A step of the handler of invocation p.
Step(p) ==
    \/ HandleMessage(p)
    \/ SendMessageReturns(p)
    \/ SendProgressMessageReturns(p)
    \/ GetFileReturns(p)
    \/ AxiosReturns(p)
    \/ WriterSettles(p)
    \/ SharpReturns(p)
    \/ ImagesEditReturns(p)
    \/ ImagesGenerateReturns(p)
    \/ SendPhotoReturns(p)

NextConc == \E p \in Procs : Step(p)

SpecConc == InitConc /\ [][NextConc]_vars

(***************************************************************************)
(* handleMessage invoked twice with the same event, the second time after  *)
(* the first invocation has returned or thrown.  The directory, the clock  *)
(* and the platform's message ids are what the first leaves behind.        *)
(***************************************************************************)
TimeEvent ==
    [message |-> Some([chat |-> [id |-> 101], text |-> Some(Time),
                       photo |-> Absent, caption |-> Absent])]

TwiceBodies == {PhotoEvent, Image1Event, TimeEvent}

InitTwice ==
    /\ \E body \in TwiceBodies : inv = [p \in Procs |-> Invocation(p, body)]
    /\ fs = <<>>
    /\ clock = 0
    /\ nextMessageId = 1
    /\ web = NoWeb

\* It is the turn of invocation p: the second waits for the first to end.
Turn(p) == p = 2 => inv[1].pc \in {"done", "threw"}

NextTwice ==
    \E p \in Procs :
        \/ Turn(p) /\ HandleMessage(p)
        \/ Turn(p) /\ SendMessageReturns(p)
        \/ Turn(p) /\ SendProgressMessageReturns(p)
        \/ Turn(p) /\ GetFileReturns(p)
        \/ Turn(p) /\ AxiosReturns(p)
        \/ Turn(p) /\ WriterSettles(p)
        \/ Turn(p) /\ SharpReturns(p)
        \/ Turn(p) /\ ImagesEditReturns(p)
        \/ Turn(p) /\ ImagesGenerateReturns(p)
        \/ Turn(p) /\ SendPhotoReturns(p)

SpecTwice == InitTwice /\ [][NextTwice]_vars

(***************************************************************************)
(* One invocation of handleMessage whose external calls reject either with *)
(* Error instances or with values that are not (a library may reject with  *)
(* a string or a plain object): sendErrorMessage takes `error: unknown`.   *)
(***************************************************************************)
Dalle3Event ==
    [message |-> Some([chat |-> [id |-> 101], text |-> Some(Dalle3 \o <<"a">>),
                       photo |-> Absent, caption |-> Absent])]

ThrownBodies == {PhotoEvent, Image1Event, Dalle3Event, TimeEvent}

Rejections == {"Error", "string"}

InitThrown ==
    /\ \E body \in ThrownBodies, rejection \in Rejections :
          inv = [p \in Procs |->
                    IF p = 1
                    THEN [Invocation(p, body) EXCEPT !.rejection = rejection]
                    ELSE NoInvocation]
    /\ fs = <<>>
    /\ clock = 0
    /\ nextMessageId = 1
    /\ web = NoWeb

NextThrown ==
    \E p \in Procs :
        \/ HandleMessage(p)
        \/ SendMessageReturns(p)
        \/ SendProgressMessageReturns(p)
        \/ GetFileReturns(p)
        \/ AxiosReturns(p)
        \/ WriterSettles(p)
        \/ SharpReturns(p)
        \/ ImagesEditReturns(p)
        \/ ImagesGenerateReturns(p)
        \/ SendPhotoReturns(p)
        \/ IntervalFires(p)
        \/ FinalEditSettles(p)

SpecThrown == InitThrown /\ [][NextThrown]_vars

(***************************************************************************)
(* One invocation of handleMessage under fairness: every awaited external  *)
(* call eventually returns, fulfilled or rejected, and the event loop      *)
(* then resumes the handler.  A live interval keeps firing, every two     *)
(* seconds, any number of times while a call is pending (beyond MaxTicks   *)
(* the count of ticks is no longer advanced).                              *)
(***************************************************************************)
LiveBodies == {PhotoEvent, Image1Event, Dalle3Event, TimeEvent}

InitLive ==
    /\ \E body \in LiveBodies :
          inv = [p \in Procs |->
                    IF p = 1 THEN Invocation(p, body) ELSE NoInvocation]
    /\ fs = <<>>
    /\ clock = 0
    /\ nextMessageId = 1
    /\ web = NoWeb

\* The interval fires again after MaxTicks ticks.
IntervalKeepsFiring(p) ==
    /\ inv[p].timer = "live"
    /\ inv[p].ticks = MaxTicks
    /\ \E ok \in BOOLEAN :
          inv' = [inv EXCEPT ![p] = [intervalCallback(inv[p], ok)
                                        EXCEPT !.ticks = MaxTicks]]
    /\ UNCHANGED <<fs, clock, nextMessageId, web>>

\* response.data.pipe(writer) when the download (response.data) fails
\* before its end: pipe() neither ends nor destroys the writer, so the
\* writer emits neither "finish" nor "error" and the promise the handler
\* awaits is never settled.  The file may have been created.
downloadFails(r, f, partial) ==
    LET jpg == TempJpgPath(FileId(r))
    IN  IF partial
        THEN World(At(Creates(r, jpg), "unsettled"),
                   writeFile(f, jpg, [size |-> OriginalSize, by |-> r.id]))
        ELSE World(At(r, "unsettled"), f)

DownloadStreamFails(p) ==
    /\ inv[p].pc = "writer"
    /\ \E partial \in BOOLEAN : Resume(p, downloadFails(inv[p], fs, partial))
    /\ UNCHANGED <<clock, nextMessageId, web>>

\* An awaited call of invocation p returns and the handler runs on.
Returns(p) ==
    \/ HandleMessage(p)
    \/ SendMessageReturns(p)
    \/ SendProgressMessageReturns(p)
    \/ GetFileReturns(p)
    \/ AxiosReturns(p)
    \/ WriterSettles(p)
    \/ DownloadStreamFails(p)
    \/ SharpReturns(p)
    \/ ImagesEditReturns(p)
    \/ ImagesGenerateReturns(p)
    \/ SendPhotoReturns(p)

NextLive ==
    \E p \in Procs :
        \/ Returns(p)
        \/ IntervalFires(p)
        \/ IntervalKeepsFiring(p)
        \/ FinalEditSettles(p)

SpecLive ==
    /\ InitLive
    /\ [][NextLive]_vars
    /\ \A p \in Procs : WF_vars(Returns(p))
    /\ \A p \in Procs : WF_vars(IntervalFires(p) \/ IntervalKeepsFiring(p))


(***************************************************************************)
(* Properties.                                                             *)
(***************************************************************************)
Started(r) == r.timer # "none"

Finished(r) == r.pc \in {"done", "threw"}

Calls(r, op) == {i \in DOMAIN r.log : r.log[i].op = op}

IsFinalEdit(c) ==
    c.op = "editMessageText" /\ c.text[Len(c.text)] = ":white_check_mark:"

IsProgressStart(c) ==
    c.op = "sendMessage" /\ c.text[Len(c.text)] = loadingIcons[1]

IsErrorMessage(c) ==
    c.op = "sendMessage" /\ Head(c.text) = ":x: Sorry, I couldn't "

\* C1: a handler that started a progress indicator calls the stop function
\* exactly once on every exit path, and never twice for one handle.
StoppedExactlyOnce ==
    \A p \in Procs :
        /\ inv[p].stops <= 1
        /\ Started(inv[p]) /\ Finished(inv[p]) => inv[p].stops = 1

\* C2: handleMessage never rejects outward, whichever external calls fail.
HandleMessageNeverThrows ==
    \A p \in Procs : inv[p].pc # "threw" /\ ~Present(inv[p].thrown)

\* C3: when a handler invocation has returned, none of the temporary files
\* it created still exists.
NoTempFileLeft ==
    \A p \in Procs :
        Finished(inv[p]) => \A path \in inv[p].created : ~exists(fs, path)

(***************************************************************************)
(* The decision order of the router as the specification words it.         *)
(* emptyIsPresent says whether a field holding the empty string counts as  *)
(* present.                                                                *)
(***************************************************************************)
Given(o, emptyIsPresent) == Present(o) /\ (emptyIsPresent \/ o[1] # <<>>)

ExpectedBranch(m, emptyIsPresent) ==
    IF Present(m.photo) /\ Given(m.caption, emptyIsPresent) THEN "PhotoEdit"
    ELSE IF Present(m.text) /\ startsWith(m.text[1], Image1) THEN "Image1"
    ELSE IF Present(m.text) /\ startsWith(m.text[1], Dalle3) THEN "Dalle3"
    ELSE IF m.text = Some(Test) THEN "Test"
    ELSE IF m.text = Some(Time) THEN "Time"
    ELSE "Unrecognized"

ExpectedReply(m, emptyIsPresent) ==
    <<":warning: Sorry, \"">> \o
    (IF Given(m.text, emptyIsPresent) THEN m.text[1] ELSE <<"your message">>)
    \o <<"\" is not a recognized command.">>

\* The branch an invocation took, read off the handler it entered and the
\* first call it issued.
TakenBranch(r) ==
    CASE r.handler = "handlePhotoWithCaption" -> "PhotoEdit"
      [] r.handler = "handleImage1Command" -> "Image1"
      [] r.handler = "handleDalle3Command" -> "Dalle3"
      [] r.handler = "handleMessage" /\ Len(r.log) = 1
         /\ r.log[1].op = "sendMessage" ->
           IF r.log[1].text = <<"Test OK">> THEN "Test"
           ELSE IF Head(r.log[1].text) = "Current time: " THEN "Time"
           ELSE IF Head(r.log[1].text) = ":warning: Sorry, \"" THEN "Unrecognized"
           ELSE "none"
      [] OTHER -> "none"

Routed(r) == r.pc \notin {"off", "start"} /\ Present(r.body.message)

RoutedAsExpected(r, emptyIsPresent) ==
    LET m == Message(r)
        branch == ExpectedBranch(m, emptyIsPresent)
    IN  /\ TakenBranch(r) = branch
        /\ branch = "PhotoEdit" =>
              /\ Calls(r, "images.generate") = {}
              /\ IsProgressStart(r.log[1])
              /\ Head(r.log[1].text) =
                     ":camera: Received your photo. Creating a variation..."
        /\ branch \in {"Image1", "Dalle3"} =>
              /\ Calls(r, "images.edit") = {}
              /\ Calls(r, "getFile") = {}
        /\ branch \in {"Test", "Time", "Unrecognized"} => Len(r.log) = 1
        /\ branch = "Unrecognized" =>
              r.log[1].text = ExpectedReply(m, emptyIsPresent)

\* C4 (as stated): every event with a message takes exactly the first
\* matching branch of: photo and caption present -> PhotoEdit; text begins
\* with /image1 -> Image1; with /dalle3 -> Dalle3; equals /test -> Test;
\* equals /time -> Time; otherwise the not-recognized reply quoting the text,
\* or the placeholder when the text is absent.
BranchByPresence ==
    \A p \in Procs : Routed(inv[p]) => RoutedAsExpected(inv[p], TRUE)

\* C4 (amended): the same decision order, where a caption counts only when
\* it is present and not empty, and the not-recognized reply uses the
\* placeholder when the text is absent or empty.
BranchByPriority ==
    \A p \in Procs : Routed(inv[p]) => RoutedAsExpected(inv[p], FALSE)

\* C4 witness: an event with photo, caption and a text beginning with
\* /image1 has been handled to the end as PhotoEdit.
PhotoWinsOverImage1 ==
    \E p \in Procs :
        /\ inv[p].pc = "done"
        /\ Present(inv[p].body.message)
        /\ Present(Message(inv[p]).text)
        /\ startsWith(Message(inv[p]).text[1], Image1)
        /\ Present(Message(inv[p]).photo)
        /\ TruthyStr(Message(inv[p]).caption)
        /\ inv[p].handler = "handlePhotoWithCaption"
        /\ Calls(inv[p], "sendPhoto") # {}

\* C5: an event without a message leads to no outbound call at all, no
\* progress indicator, no timer and no file.
SilentWithoutMessage ==
    \A p \in Procs :
        inv[p].pc # "off" /\ ~Present(inv[p].body.message) =>
            /\ inv[p].log = <<>>
            /\ inv[p].timer = "none" /\ inv[p].ticks = 0 /\ inv[p].stops = 0
            /\ inv[p].created = {}
            /\ inv[p].pc \in {"start", "done"}

\* C5 witness: handleMessage has returned for an event without a message.
ReturnedWithoutMessage ==
    \E p \in Procs : inv[p].pc = "done" /\ ~Present(inv[p].body.message)

\* Only spaces follow the command prefix.
BarePrefix(text, command) ==
    /\ startsWith(text, command)
    /\ \A i \in (Len(command) + 1)..Len(text) : text[i] = " "

IsUsageWarning(c, chatId, command) ==
    c = [op |-> "sendMessage", chat_id |-> chatId,
         text |-> <<":warning: Please provide a prompt after ">> \o command]

\* C6: /image1 or /dalle3 followed by nothing but white space gets exactly
\* one usage-warning reply; no generation call is made and no progress
\* indicator is started.
EmptyPromptShortCircuits ==
    \A p \in Procs : \A command \in {Image1, Dalle3} :
        LET r == inv[p] IN
        /\ r.handler \in {"handleImage1Command", "handleDalle3Command"}
        /\ BarePrefix(Message(r).text[1], command)
        => /\ Len(r.log) = 1
           /\ IsUsageWarning(r.log[1], ChatId(r), command)
           /\ ~Started(r) /\ r.ticks = 0 /\ r.stops = 0

\* C6 witness: "/image1 " (white space only) was answered with the usage
\* warning and the handler returned.
UsageWarningSent ==
    \E p \in Procs :
        /\ inv[p].pc = "done"
        /\ inv[p].handler = "handleImage1Command"
        /\ Message(inv[p]).text[1] = Image1 \o <<" ">>
        /\ IsUsageWarning(inv[p].log[1], ChatId(inv[p]), Image1)

\* The invocation ended on the success path of /image1 with an inline
\* result: no awaited call rejected.
Image1InlineSuccess(r) ==
    /\ r.handler = "handleImage1Command"
    /\ r.pc = "done"
    /\ r.rejected = <<>>
    /\ Present(r.response)
    /\ HasB64(FirstImage(r.response[1]))

\* C7: "/image1 <p>", an inline result and no failing send: one generate
\* call with prompt p, size 1024x1024 and count 1; one photo-send whose
\* caption contains p; the indicator started once and stopped once.
Image1HappyPath ==
    \A p \in Procs :
        LET r == inv[p]
            prompt == trim(SubSeq(Message(r).text[1], Len(Image1) + 1,
                                  Len(Message(r).text[1])))
        IN  Image1InlineSuccess(r) =>
            /\ prompt # <<>>
            /\ \E i \in DOMAIN r.log :
                  /\ Calls(r, "images.generate") = {i}
                  /\ r.log[i].prompt = prompt
                  /\ r.log[i].size = "1024x1024"
                  /\ r.log[i].n = 1
            /\ \E i \in DOMAIN r.log :
                  /\ Calls(r, "sendPhoto") = {i}
                  /\ Contains(r.log[i].caption, prompt)
            /\ Cardinality({i \in DOMAIN r.log : IsProgressStart(r.log[i])}) = 1
            /\ Started(r)
            /\ r.stops = 1
            /\ Cardinality({i \in DOMAIN r.log : IsFinalEdit(r.log[i])}) = 1

\* C7 witness: "/image1 a " ended on that path.
Image1Delivered ==
    \E p \in Procs :
        /\ Image1InlineSuccess(inv[p])
        /\ Message(inv[p]).text[1] = Image1 \o <<" ", "a", " ">>

\* C8: a resized file of 4 MiB or more aborts before any edit call, with the
\* indicator stopped and an error message containing "too large"; a smaller
\* file passes the check and the edit call is made.
SizeCeiling ==
    \A p \in Procs :
        LET r == inv[p] IN
        Present(r.size) =>
            IF r.size[1] >= 4194304
            THEN /\ Calls(r, "images.edit") = {}
                 /\ r.timer = "cleared" /\ r.stops >= 1
                 /\ \E i \in DOMAIN r.log :
                       /\ IsErrorMessage(r.log[i])
                       /\ Contains(r.log[i].text, <<"too large">>)
            ELSE Cardinality(Calls(r, "images.edit")) = 1

\* C8 witness: the boundary value 4194304 itself was rejected.
BoundaryRejected ==
    \E p \in Procs :
        /\ inv[p].size = Some(4194304)
        /\ inv[p].pc = "sendErrorMessage"

AlwaysAcknowledged == web.pc = "done" => web.sent = <<"OK">>

IsENOENT(error) ==
    error.instanceofError /\ Head(error.message) = "ENOENT: no such file or directory, "

\* C11: two concurrent invocations share no temporary file: no path is
\* written by both, and no invocation fails on a file that another one
\* removed (alone, an invocation never meets a missing file).
InvocationsIsolated ==
    \A p \in Procs : \A q \in Procs \ {p} :
        /\ inv[p].created \cap inv[q].created = {}
        /\ \A i \in DOMAIN inv[p].caught : ~IsENOENT(inv[p].caught[i])

Count(r, ops) == Cardinality({i \in DOMAIN r.log : r.log[i].op \in ops})

Generation == {"images.generate", "images.edit"}

\* The event asks for no generation: it is routed to Test, Time or
\* Unrecognized, or it is a command with nothing but white space after it.
NoGenerationAsked(m) ==
    \/ ExpectedBranch(m, FALSE) \in {"Test", "Time", "Unrecognized"}
    \/ /\ ExpectedBranch(m, FALSE) = "Image1"
       /\ BarePrefix(m.text[1], Image1)
    \/ /\ ExpectedBranch(m, FALSE) = "Dalle3"
       /\ BarePrefix(m.text[1], Dalle3)

\* C12: per event, the file look-up, the download, the generation call and
\* the photo-send are each issued at most once, at most one generation call
\* is made in all, and an event routed to Test, Time, Unrecognized or an
\* empty prompt makes none.
NoRetries ==
    \A p \in Procs :
        LET r == inv[p] IN
        /\ \A op \in {"getFile", "axios", "createWriteStream", "sharp",
                      "sendPhoto"} : Count(r, {op}) <= 1
        /\ Count(r, Generation) <= 1
        /\ Present(r.body.message) /\ NoGenerationAsked(Message(r)) =>
               Count(r, Generation) = 0

\* C12 witness: a photo event went through look-up, download, edit call and
\* photo-send, one of each, and its handler returned.
EachCallOnce ==
    \E p \in Procs :
        LET r == inv[p] IN
        /\ r.pc = "done"
        /\ r.handler = "handlePhotoWithCaption"
        /\ r.rejected = <<>>
        /\ \A op \in {"getFile", "axios", "images.edit", "sendPhoto"} :
              Count(r, {op}) = 1

\* C13: when a handler that started a progress indicator has returned or
\* thrown, the indicator's timer is cancelled, and from then on no tick
\* (glyph edit) happens for it.
TimerCancelledAtExit ==
    /\ [](\A p \in Procs :
            Started(inv[p]) /\ Finished(inv[p]) => inv[p].timer = "cleared")
    /\ [][\A p \in Procs :
            Finished(inv[p]) =>
                /\ inv'[p].ticks = inv[p].ticks
                /\ inv'[p].currentIconIndex = inv[p].currentIconIndex]_vars

\* C13 witness: a handler whose indicator had ticked left by throwing (the
\* error message could not be sent).
ThrewAfterTicks ==
    \E p \in Procs :
        /\ inv[p].pc = "threw"
        /\ Started(inv[p])
        /\ inv[p].ticks >= 1
        /\ inv[p].caught # <<>>

\* C14: once the stop function has been called the timer is cancelled and
\* no glyph edit is issued any more: the last edit request issued for the
\* message is the one showing the caller text with the completion mark, and
\* each call of the stop function issued one such edit.
FinalEditIsLast ==
    /\ [](\A p \in Procs :
            LET r == inv[p] IN
            r.stops >= 1 =>
                /\ r.timer = "cleared"
                /\ r.lastEdit =
                       Some([op |-> "editMessageText", chat_id |-> ChatId(r),
                             message_id |-> r.messageId,
                             text |-> r.progressText \o
                                      <<" ", ":white_check_mark:">>])
                /\ Cardinality({i \in DOMAIN r.log : IsFinalEdit(r.log[i])})
                       = r.stops)
    /\ [][\A p \in Procs :
            inv[p].stops >= 1 =>
                /\ inv'[p].ticks = inv[p].ticks
                /\ inv'[p].lastEdit = inv[p].lastEdit]_vars

\* C14 witness: the indicator ticked twice, was stopped on the success path
\* and the handler is still waiting for its photo-send.
StoppedAfterTicks ==
    \E p \in Procs :
        /\ inv[p].pc = "sendPhoto"
        /\ inv[p].stops = 1
        /\ inv[p].ticks = 2

\* The text the handler gave its indicator, from the event.
CallerText(r) ==
    CASE r.handler = "handlePhotoWithCaption" ->
           <<":camera: Received your photo. Creating a variation...">>
      [] r.handler = "handleImage1Command" ->
           <<":art: Generating image using image-1 with prompt: \"">> \o
           trim(SubSeq(Message(r).text[1], 8, Len(Message(r).text[1]))) \o
           <<"\"">>
      [] OTHER ->
           <<":frame: Generating image using dalle-3 with prompt: \"">> \o
           trim(SubSeq(Message(r).text[1], 8, Len(Message(r).text[1]))) \o
           <<"\"">>

\* C15: the initial message shows the caller text with glyph 0; while the
\* indicator runs, the edit of the k-th tick shows the caller text with
\* glyph k mod 8 of the eight glyphs, and targets the message the platform
\* answered the initial send with (its first message, id 1).
GlyphCycle ==
    \A p \in Procs :
        LET r == inv[p] IN
        /\ Len(loadingIcons) = 8
        /\ r.handler \in {"handlePhotoWithCaption", "handleImage1Command",
                          "handleDalle3Command"}
           /\ r.log # <<>> /\ IsProgressStart(r.log[1]) =>
              r.log[1] = [op |-> "sendMessage", chat_id |-> ChatId(r),
                          text |-> CallerText(r) \o <<" ", loadingIcons[1]>>]
        /\ Started(r) => r.messageId = 1
        /\ r.timer = "live" =>
              /\ r.currentIconIndex = r.ticks % 8
              /\ r.ticks = 0 => r.lastEdit = Absent
              /\ r.ticks >= 1 =>
                    r.lastEdit =
                        Some([op |-> "editMessageText", chat_id |-> ChatId(r),
                              message_id |-> 1,
                              text |-> CallerText(r) \o
                                  <<" ", loadingIcons[(r.ticks % 8) + 1]>>])

\* C15 witness: the eighth tick wrapped round to glyph 0.
WrappedAround ==
    \E p \in Procs :
        /\ inv[p].timer = "live"
        /\ inv[p].ticks = 8
        /\ inv[p].lastEdit # Absent
        /\ inv[p].lastEdit[1].text[Len(inv[p].lastEdit[1].text)] = ":new_moon:"

\* C16: a rejected edit neither ends the cycle nor propagates.  While the
\* indicator has not been stopped it stays running after a rejected tick
\* edit, and the next tick advances the glyph and issues its edit; only a
\* call of the stop function ends the cycle.  Every completion-mark edit is
\* followed at once by the handler's next request (the photo, the error
\* message or the second stop), whether or not the edit is rejected later,
\* and nothing the handler catches or throws is an edit's rejection.
EditFailuresContained ==
    /\ [](\A p \in Procs :
            LET r == inv[p] IN
            /\ r.tickEditFailed /\ r.stops = 0 =>
                   r.timer = "live" /\ ~Finished(r) /\ r.caught = <<>>
            /\ \A i \in DOMAIN r.log :
                   IsFinalEdit(r.log[i]) =>
                       /\ i < Len(r.log)
                       /\ r.log[i + 1].op \in {"sendPhoto", "sendMessage",
                                               "editMessageText"}
            /\ \A i \in DOMAIN r.caught :
                   r.caught[i] # Rejected("editMessageText")
            /\ r.thrown \in {Absent, Some(Rejected("sendMessage"))}
            /\ r.finalEditErrors <= r.stops)
    /\ [][\A p \in Procs :
            /\ inv[p].timer = "live" /\ inv'[p].timer # "live" =>
                   inv'[p].stops > inv[p].stops
            /\ inv[p].tickEditFailed /\ inv'[p].ticks # inv[p].ticks =>
                   /\ inv'[p].ticks = inv[p].ticks + 1
                   /\ inv'[p].currentIconIndex =
                          (inv[p].currentIconIndex + 1) % 8
                   /\ inv'[p].lastEdit # inv[p].lastEdit
                   /\ inv'[p].timer = "live"
                   /\ inv'[p].pc = inv[p].pc]_vars

\* C16 witness: the first tick edit was rejected, a second tick followed,
\* the completion-mark edit was rejected too, and the handler sent its
\* photo and returned.
DeliveredDespiteEditFailures ==
    \E p \in Procs :
        /\ inv[p].pc = "done"
        /\ inv[p].ticks = 2
        /\ inv[p].tickEditFailed
        /\ inv[p].finalEditErrors = 1
        /\ inv[p].rejected = <<>>
        /\ Calls(inv[p], "sendPhoto") # {}

\* The command a text stands for, by prefix and equality.
ClassOf(t) ==
    IF startsWith(t, Image1) THEN "Image1"
    ELSE IF startsWith(t, Dalle3) THEN "Dalle3"
    ELSE IF t = Test THEN "Test"
    ELSE IF t = Time THEN "Time"
    ELSE "Unrecognized"

\* The invocation was routed by its text: there is one, and photo with
\* caption did not take precedence.
RoutedByText(r) ==
    /\ Routed(r)
    /\ Present(Message(r).text)
    /\ ~(Present(Message(r).photo) /\ TruthyStr(Message(r).caption))

\* C17 (as stated): an event with text t is classified as the event with
\* text trim(t) is, by prefix and equality matching on the trimmed text.
ClassifiedByTrimmedText ==
    \A p \in Procs :
        RoutedByText(inv[p]) =>
            TakenBranch(inv[p]) = ClassOf(trim(Message(inv[p]).text[1]))

\* C17 (amended): the text is matched as received.  A text that is /test
\* or /time only up to surrounding white space is not recognized and is
\* quoted as received; a text that begins with /image1 or /dalle3 is
\* classified as its trimmed text is.
ClassifiedByReceivedText ==
    \A p \in Procs :
        LET r == inv[p]
            t == Message(r).text[1]
        IN  RoutedByText(r) =>
            /\ TakenBranch(r) = ClassOf(t)
            /\ ClassOf(t) \in {"Image1", "Dalle3"} =>
                   ClassOf(trim(t)) = TakenBranch(r)
            /\ t # trim(t) /\ ~startsWith(t, Image1) /\ ~startsWith(t, Dalle3) =>
                   /\ TakenBranch(r) = "Unrecognized"
                   /\ r.log[1].text =
                          <<":warning: Sorry, \"">> \o t \o
                          <<"\" is not a recognized command.">>

\* C17 witness: " /test" was answered as not recognized.
SpacedTestNotRecognized ==
    \E p \in Procs :
        /\ inv[p].pc = "done"
        /\ RoutedByText(inv[p])
        /\ Message(inv[p]).text[1] = <<" ">> \o Test
        /\ Head(inv[p].log[1].text) = ":warning: Sorry, \""

\* The services answered the two invocations the same way: whatever call
\* both of them made got the same answer (but for the message id, which
\* the platform gives afresh), and their clocks read the same.
AnsweredAlike(a, b) ==
    \A i \in DOMAIN a.answers : \A j \in DOMAIN b.answers :
        a.answers[i].call = b.answers[j].call =>
            /\ a.answers[i].ok = b.answers[j].ok
            /\ \/ a.answers[i].call = "sendProgressMessage"
               \/ a.answers[i].value = b.answers[j].value

\* The i-th outbound call of r, an edit naming its message as the
\* invocation's own progress message and not by the platform's id.
Outbound(r, i) ==
    IF r.log[i].op = "editMessageText"
    THEN [r.log[i] EXCEPT !.message_id = @ - r.messageId]
    ELSE r.log[i]

\* C18: handleMessage invoked twice with the same event and the same
\* answers makes the same outbound calls in the same order both times and
\* ends the same way, whatever the first invocation left behind.
Idempotent ==
    LET a == inv[1]
        b == inv[2]
    IN  /\ a.pc \in {"done", "threw"} /\ b.pc \in {"done", "threw"}
        /\ a.body = b.body
        /\ AnsweredAlike(a, b)
        => /\ Len(b.log) = Len(a.log)
           /\ \A i \in DOMAIN a.log : Outbound(b, i) = Outbound(a, i)
           /\ Len(b.answers) = Len(a.answers)
           /\ b.pc = a.pc

\* C18 witness: the photo-send of the first invocation was rejected and its
\* files stayed on disk; the second invocation, answered alike, has ended.
SecondRunOverLeftovers ==
    /\ inv[1].pc = "done" /\ inv[2].pc = "done"
    /\ inv[1].handler = "handlePhotoWithCaption"
    /\ inv[1].rejected = <<"sendPhoto">>
    /\ Present(inv[1].tempOut)
    /\ AnsweredAlike(inv[1], inv[2])
    /\ inv[2].rejected = <<"sendPhoto">>

\* The steps of the photo pipeline, as the calls they issue.
PipelineOrder ==
    <<"getFile", "axios", "createWriteStream", "sharp", "images.edit",
      "sendPhoto">>

\* The place in the pipeline of the step an answer belongs to.
StepNo(call) ==
    CASE call = "getFile" -> 1
      [] call = "axios" -> 2
      [] call = "writer" -> 3
      [] call = "sharp" -> 4
      [] call = "images.edit" -> 5
      [] call = "sendPhoto" -> 6
      [] OTHER -> 0

\* The pipeline calls of r in the order it issued them.
PipelineOps(r) ==
    LET ops == [i \in DOMAIN r.log |-> r.log[i].op]
    IN  SelectSeq(ops, LAMBDA op : op \in {"getFile", "axios",
                                          "createWriteStream", "sharp",
                                          "images.edit", "sendPhoto"})

ErrorMessages(r) == {i \in DOMAIN r.log : IsErrorMessage(r.log[i])}

FirstResult(response) ==
    IF response.data # Absent /\ response.data[1] # <<>>
    THEN <<response.data[1][1]>>
    ELSE <<>>

Inline(response) ==
    FirstResult(response) # <<>> /\ FirstResult(response)[1].b64_json # Absent

Remote(response) ==
    FirstResult(response) # <<>> /\ FirstResult(response)[1].url # Absent

\* The prompt of the event as the handler of r reports it.
PromptOf(r) ==
    IF r.handler = "handlePhotoWithCaption"
    THEN Message(r).caption[1]
    ELSE trim(SubSeq(Message(r).text[1], 8, Len(Message(r).text[1])))

\* C20: in the photo and /image1 handlers, a generation response with an
\* inline first result leads to one photo-send of the decoded file, one
\* with a remote first result to one photo-send of that URL, both with a
\* caption that quotes the prompt; a response without data or with a first
\* result that has neither leads to no photo-send and one error message.
ResultEitherWay ==
    \A p \in Procs :
        LET r == inv[p] IN
        r.handler \in {"handlePhotoWithCaption", "handleImage1Command"} =>
            \A i \in DOMAIN r.answers :
                LET a == r.answers[i] IN
                a.call \in Generation /\ a.ok =>
                    IF Inline(a.value[1]) \/ Remote(a.value[1])
                    THEN \E j \in DOMAIN r.log :
                            /\ Calls(r, "sendPhoto") = {j}
                            /\ PromptOf(r) # <<>>
                            /\ Contains(r.log[j].caption,
                                        PromptOf(r) \o <<"\"">>)
                            /\ r.log[j].chat_id = ChatId(r)
                            /\ IF Inline(a.value[1])
                               THEN /\ DOMAIN r.log[j].photo = {"stream"}
                                    /\ r.tempOut = Some(r.log[j].photo.stream)
                               ELSE r.log[j].photo =
                                        [url |-> FirstResult(a.value[1])[1].url[1]]
                    ELSE /\ Calls(r, "sendPhoto") = {}
                         /\ Cardinality(ErrorMessages(r)) = 1

\* C20 witness: /image1 got a response whose first result is a URL only,
\* sent it as a photo and returned.
RemoteResultSent ==
    \E p \in Procs :
        /\ inv[p].pc = "done"
        /\ inv[p].handler = "handleImage1Command"
        /\ inv[p].rejected = <<>>
        /\ inv[p].response # Absent
        /\ Remote(inv[p].response[1]) /\ ~Inline(inv[p].response[1])
        /\ Calls(inv[p], "sendPhoto") # {}

\* The operation label the catch block of r's handler gives.
OperationLabel(r) ==
    IF r.handler = "handlePhotoWithCaption"
    THEN "create a variation of your image"
    ELSE "generate the image"

\* The calls awaited inside the try blocks of the handlers.
TryCalls ==
    {"getFile", "axios", "writer", "sharp", "images.edit", "images.generate",
     "sendPhoto"}

\* The text an outbound call shows in the chat.
Shown(c) ==
    CASE c.op \in {"sendMessage", "editMessageText"} -> c.text
      [] c.op = "sendPhoto" -> c.caption
      [] OTHER -> <<>>

\* The text of a caught value: error.message, or String(error).
Said(error) == IF error.instanceofError THEN error.message ELSE error.string

\* C21: every failure caught in a handler leads to one sendErrorMessage for
\* the event: the error is logged once and one text message is sent, made
\* of the cross mark, "Sorry, I couldn't <label>." and the error's message
\* (its string form when it is not an Error); no other outbound call of
\* the event shows the error's text.
ErrorTextOnlyBySendErrorMessage ==
    \A p \in Procs :
        LET r == inv[p]
            reports == {i \in DOMAIN r.log : IsErrorMessage(r.log[i])}
        IN  /\ Len(r.caught) <= 1
            /\ Cardinality(reports) = Len(r.caught)
            /\ \A i \in DOMAIN r.answers :
                   LET a == r.answers[i] IN
                   /\ a.call \in TryCalls /\ ~a.ok =>
                          r.caught =
                              <<IF r.rejection = "Error"
                                THEN [instanceofError |-> TRUE,
                                      message |-> <<a.call, " failed">>]
                                ELSE [instanceofError |-> FALSE,
                                      string |-> <<a.call, " failed">>]>>
                   /\ a.call = "getFile" /\ a.ok /\ a.value[1] = Absent =>
                          r.caught =
                              <<[instanceofError |-> TRUE,
                                 message |-> <<"Could not get file path">>]>>
            /\ \A i \in reports :
                   /\ r.log[i] =
                          [op |-> "sendMessage", chat_id |-> ChatId(r),
                           text |-> <<":x: Sorry, I couldn't ",
                                      OperationLabel(r), ". Error: ">> \o
                                    Said(r.caught[1])]
                   /\ \A j \in DOMAIN r.log \ {i} :
                          ~Contains(Shown(r.log[j]), Said(r.caught[1]))

\* C21 witness: the generation call rejected with a value that is not an
\* Error, its string form was sent in the error message and the handler
\* returned.
StringFormReported ==
    \E p \in Procs :
        /\ inv[p].pc = "done"
        /\ inv[p].rejected = <<"images.generate">>
        /\ Len(inv[p].caught) = 1
        /\ ~inv[p].caught[1].instanceofError
        /\ \E i \in DOMAIN inv[p].log :
              /\ IsErrorMessage(inv[p].log[i])
              /\ Contains(inv[p].log[i].text, <<"images.generate", " failed">>)


\* C22: on the success path of the three generating handlers the indicator
\* is stopped after the generation call has returned and before the result
\* photo-send is issued: the completion-mark edit is the call issued just
\* before the photo-send, both are issued in the step that hears the
\* generation call's answer, the timer is cancelled in that step and no
\* glyph edit is issued in it.
StoppedBeforePhotoSend ==
    /\ [](\A p \in Procs :
            LET r == inv[p] IN
            \A j \in Calls(r, "sendPhoto") :
                /\ j > 2
                /\ IsFinalEdit(r.log[j - 1])
                /\ r.log[j - 1].message_id = r.messageId
                /\ r.timer = "cleared"
                /\ \E i \in 1..(j - 2) : r.log[i].op \in Generation
                /\ \E k \in DOMAIN r.answers :
                       r.answers[k].call \in Generation /\ r.answers[k].ok)
    /\ [][\A p \in Procs :
            Calls(inv'[p], "sendPhoto") # Calls(inv[p], "sendPhoto") =>
                /\ inv[p].pc \in Generation
                /\ inv[p].timer = "live"
                /\ inv'[p].timer = "cleared"
                /\ inv'[p].stops = inv[p].stops + 1
                /\ inv'[p].ticks = inv[p].ticks
                /\ Len(inv'[p].log) = Len(inv[p].log) + 2
                /\ \E k \in DOMAIN inv'[p].answers \ DOMAIN inv[p].answers :
                       /\ inv'[p].answers[k].call \in Generation
                       /\ inv'[p].answers[k].ok]_vars

\* C22 witness: /dalle3 got its result while the indicator had ticked,
\* stopped the indicator, sent the photo and returned.
Dalle3StoppedThenSent ==
    \E p \in Procs :
        /\ inv[p].pc = "done"
        /\ inv[p].handler = "handleDalle3Command"
        /\ inv[p].rejected = <<>>
        /\ inv[p].ticks >= 1
        /\ inv[p].stops = 1
        /\ Calls(inv[p], "sendPhoto") # {}

\* C23: for one event the chat never gets both a result photo and an error
\* message: once the photo-send has succeeded no error message is sent,
\* also when the deletion of a temporary file after it fails.
NeverPhotoAndError ==
    \A p \in Procs :
        LET r == inv[p] IN
        (\E k \in DOMAIN r.answers :
            r.answers[k].call = "sendPhoto" /\ r.answers[k].ok) =>
            /\ r.caught = <<>>
            /\ \A i \in DOMAIN r.log : ~IsErrorMessage(r.log[i])

\* C24: when every external call eventually returns, handleMessage
\* eventually completes (returns or rejects) and the indicator it started
\* is stopped, however often the interval fires meanwhile.
HandlerCompletes ==
    \A p \in Procs :
        (inv[p].pc = "start") ~>
            (Finished(inv[p]) /\ (Started(inv[p]) => inv[p].timer = "cleared"))

\* The same for the invocations whose download does not fail under way.
CompletesUnlessDownloadFails ==
    \A p \in Procs :
        (<>(inv[p].pc = "unsettled")) \/
        ((inv[p].pc = "start") ~>
            (Finished(inv[p]) /\ (Started(inv[p]) => inv[p].timer = "cleared")))

=============================================================================
